---- MODULE Spec2Model ----
(***************************************************************************)
(* Outbound relay selection of gossip-lib (globals.rs):                    *)
(*   Globals::relays_for_event  - which relays an event is posted to       *)
(*   Globals::get_your_nprofile - the operator's advertised profile        *)
(* The storage collaborators (relay registry, best-relays oracle, seen-on  *)
(* ledger, settings) are state variables; every storage read may fail.     *)
(***************************************************************************)
EXTENDS Naturals, Integers, Sequences, FiniteSets, TLC

\* ---------------------------------------------------------------- bounds
NumUrls == 2        \* relay URLs are 1..NumUrls; RelayUrl's Ord is <
NumPubkeys == 2     \* public keys are 1..NumPubkeys
MaxTags == 2        \* longest tag list of an event
MaxBest == 2        \* longest list the oracle returns
MaxRank == 1        \* ranks are 0..MaxRank
MaxWrites == 2      \* writes of concurrent writers during one call

\* u8::MAX, the range of the setting num_relays_per_person
MaxSetting == 255

URLs == 1..NumUrls
Pubkeys == 1..NumPubkeys

\* ------------------------------------------------------------ data model
UsageFlags == {"WRITE", "OUTBOX"}
RelayRecords == [usage : SUBSET UsageFlags, rank : 0..MaxRank]
ErrorKinds == {"StorageUnavailable", "CorruptRelayRecord"}

\* A tag is <<name, value>>; only "p" tags parse as a public-key reference.
TagValues == {<<"p", p>> : p \in Pubkeys} \cup {<<"e", 1>>}

SeqsUpTo(S, n) == UNION {[1..k -> S] : k \in 0..n}
IsInjective(s) == \A i, j \in 1..Len(s) : s[i] = s[j] => i = j
Range(s) == {s[i] : i \in 1..Len(s)}

\* The oracle's lists: no duplicates, (url, score) pairs by descending score.
BestUrlLists == {s \in SeqsUpTo(URLs, MaxBest) : IsInjective(s)}
Scored(s) == [i \in 1..Len(s) |-> <<s[i], Len(s) - i>>]
BestLists == {Scored(s) : s \in BestUrlLists}

\* Result<Vec<RelayUrl>, Error>
Ok(urls) == [ok |-> TRUE, urls |-> urls, err |-> "none"]
Pending == [ok |-> FALSE, urls |-> <<>>, err |-> "pending"]

\* tracing/`?` : an error of a collaborator becomes the call's error (From)
Err_Rewrapped(e) == [ok |-> FALSE, urls |-> <<>>, err |-> "StorageUnavailable"]
Err(e) == [ok |-> FALSE, urls |-> <<>>, err |-> e]

\* ------------------------------------------------------- pure operators
\* Relay::has_usage_bits: all the given bits are set
has_usage_bits(r, bits) == bits \subseteq r.usage

\* |r| r.has_usage_bits(Relay::WRITE) && r.rank != 0
IsWriteRelay_NoRank(r) == has_usage_bits(r, {"WRITE"})
IsWriteRelay(r) == has_usage_bits(r, {"WRITE"}) /\ r.rank # 0

\* |ri| ri.has_usage_bits(Relay::OUTBOX)
IsOutboxRelay_Ranked(r) == has_usage_bits(r, {"OUTBOX"}) /\ r.rank # 0
IsOutboxRelay(r) == has_usage_bits(r, {"OUTBOX"})

\* Storage::filter_relays: the URLs of the records the predicate accepts
\* (the predicate is given by the set of records it accepts) ...
filter_relays(reg, accepted) == {u \in URLs : reg[u] \in accepted}
\* ... as a Vec, in whatever order the storage iterates
Orderings(S) == {s \in [1..Cardinality(S) -> S] : IsInjective(s)}

\* Tag::parse_pubkey succeeds on public-key tags only
parse_pubkey_Any(t) == TRUE
parse_pubkey(t) == t[1] = "p"

\* event.tags.iter().filter_map(parse_pubkey).collect()
TaggedPubkeys(tags) ==
    LET ptags == SelectSeq(tags, parse_pubkey)
    IN  [i \in 1..Len(ptags) |-> ptags[i][2]]

\* num_relays_per_person as usize + 1 (widened before the addition)
take_count_Wrapping(k) == (k + 1) % (MaxSetting + 1)
take_count_Exact(k) == k
take_count(k) == k + 1

\* Iterator::take
Take(s, n) == SubSeq(s, 1, IF n < Len(s) THEN n ELSE Len(s))

\* get_best_relays(..).drain(..).take(n + 1).map(|(u, _)| u).collect()
best_relays(list, k) ==
    LET taken == Take(list, take_count(k))
    IN  [i \in 1..Len(taken) |-> taken[i][1]]

\* the drain(..) loop moves on to the next tagged pubkey
drain_next_Stuck(tp) == tp
drain_next(tp) == Tail(tp)

\* relay_urls.retain(|r| !seen_on.contains(r))
Retain_Nothing(urls, seen) == urls
Retain_Inverted(urls, seen) == SelectSeq(urls, LAMBDA r : r \in seen)
Retain(urls, seen) == SelectSeq(urls, LAMBDA r : r \notin seen)

\* relay_urls.sort()
Sort(urls) == SortSeq(urls, LAMBDA a, b : a < b)

\* relay_urls.dedup(): consecutive repeated elements are removed
Dedup_Skipped(urls) == urls
RECURSIVE Dedup(_)
Dedup(urls) ==
    IF Len(urls) <= 1 THEN urls
    ELSE IF urls[1] = urls[2] THEN Dedup(Tail(urls))
    ELSE <<urls[1]>> \o Dedup(Tail(urls))

\* ------------------------------------------------------------- state
VARIABLES
    registry,                       \* relay records by URL
    oracle,                         \* get_best_relays(p, Read) by pubkey
    event_seen_on_relay,            \* URLs the event was seen on
    setting_num_relays_per_person,  \* the stored setting
    event,                          \* the event's tags
    identity,                       \* GLOBALS.identity.public_key(): <<>> or <<pk>>
    pc,                             \* position in relays_for_event
    num_relays_per_person,          \* locals of relays_for_event
    relay_urls,
    tagged_pubkeys,
    result,                         \* what relays_for_event returned
    calls,                          \* storage calls of the current invocation
    raised,                         \* the error a storage call raised
    observed,                       \* oracle states the invocation has read
    prev,                           \* result of the previous invocation
    delta,                          \* what changed since the previous invocation
    writes,                         \* writes made while an invocation runs
    nprofile,                       \* what get_your_nprofile returned
    log                             \* tracing::error! lines

vars == <<registry, oracle, event_seen_on_relay, setting_num_relays_per_person,
          event, identity, pc, num_relays_per_person, relay_urls,
          tagged_pubkeys, result, calls, raised, observed, prev, delta,
          writes, nprofile, log>>

collaborators == <<registry, oracle, event_seen_on_relay,
                   setting_num_relays_per_person, event, identity>>
profile_vars == <<nprofile, log>>
history == <<prev, delta, writes>>

\* --------------------------------------------------- relays_for_event
\* After a storage call: the loop over tagged_pubkeys, then the seen-on step.
NextPc(tp) == IF tp = <<>> THEN "seen" ELSE "best"

\* Lines 249-272: read the setting, scan the registry for write relays,
\* collect the tagged pubkeys.
filter_relays_ok ==
    /\ pc = "filter"
    /\ \E write_relay_urls \in Orderings(filter_relays(registry, {r \in RelayRecords : IsWriteRelay(r)})) :
          relay_urls' = write_relay_urls
    /\ num_relays_per_person' = setting_num_relays_per_person
    /\ tagged_pubkeys' = TaggedPubkeys(event)
    /\ pc' = NextPc(tagged_pubkeys')
    /\ calls' = Append(calls, <<"filter_relays", 0>>)
    /\ UNCHANGED <<collaborators, result, raised, observed, history, profile_vars>>

\* Line 255: filter_relays(..)? returns the storage error
filter_relays_err ==
    /\ pc = "filter"
    /\ \E e \in ErrorKinds :
          /\ raised' = e
          /\ result' = Err(e)
    /\ num_relays_per_person' = setting_num_relays_per_person
    /\ pc' = "done"
    /\ calls' = Append(calls, <<"filter_relays", 0>>)
    /\ UNCHANGED <<collaborators, relay_urls, tagged_pubkeys, observed,
                   history, profile_vars>>

\* Lines 273-282: one iteration of the loop over the tagged pubkeys
get_best_relays_ok ==
    /\ pc = "best"
    /\ LET pubkey == Head(tagged_pubkeys)
       IN  /\ relay_urls' =
                 relay_urls \o best_relays(oracle[pubkey], num_relays_per_person)
           /\ calls' = Append(calls, <<"get_best_relays", pubkey>>)
    /\ observed' = observed \cup {oracle}
    /\ tagged_pubkeys' = drain_next(tagged_pubkeys)
    /\ pc' = NextPc(tagged_pubkeys')
    /\ UNCHANGED <<collaborators, num_relays_per_person, result, raised,
                   history, profile_vars>>

\* Line 276: get_best_relays(..)? returns the storage error
get_best_relays_err ==
    /\ pc = "best"
    /\ \E e \in ErrorKinds :
          /\ raised' = e
          /\ result' = Err(e)
    /\ calls' = Append(calls, <<"get_best_relays", Head(tagged_pubkeys)>>)
    /\ pc' = "done"
    /\ UNCHANGED <<collaborators, num_relays_per_person, relay_urls,
                   tagged_pubkeys, observed, history, profile_vars>>

\* Lines 285-296: subtract the seen-on relays, sort, dedup, return
get_event_seen_on_relay_ok ==
    /\ pc = "seen"
    /\ LET seen_on == event_seen_on_relay
       IN  relay_urls' = Dedup(Sort(Retain(relay_urls, seen_on)))
    /\ result' = Ok(relay_urls')
    /\ calls' = Append(calls, <<"get_event_seen_on_relay", 0>>)
    /\ pc' = "done"
    /\ UNCHANGED <<collaborators, num_relays_per_person, tagged_pubkeys,
                   raised, observed, history, profile_vars>>

\* Line 287: get_event_seen_on_relay(..)? returns the storage error
get_event_seen_on_relay_err ==
    /\ pc = "seen"
    /\ \E e \in ErrorKinds :
          /\ raised' = e
          /\ result' = Err(e)
    /\ calls' = Append(calls, <<"get_event_seen_on_relay", 0>>)
    /\ pc' = "done"
    /\ UNCHANGED <<collaborators, num_relays_per_person, relay_urls,
                   tagged_pubkeys, observed, history, profile_vars>>

\* ------------------------------------------- one call, fixed collaborators
InitRecords == {r \in RelayRecords : r.usage \in {{"WRITE"}, {"OUTBOX"}}}
WriteRecords == {r \in RelayRecords : r.usage = {"WRITE"}}
InitSettings == {0, 1, MaxSetting}
Events == SeqsUpTo(TagValues, MaxTags)

InitCall ==
    /\ pc = "filter"
    /\ num_relays_per_person = 0
    /\ relay_urls = <<>>
    /\ tagged_pubkeys = <<>>
    /\ result = Pending
    /\ calls = <<>>
    /\ raised = "none"
    /\ observed = {}
    /\ prev = Pending
    /\ delta = "none"
    /\ writes = 0
    /\ nprofile = <<"pending">>
    /\ log = <<>>

Init ==
    /\ registry \in [URLs -> InitRecords]
    /\ oracle \in [Pubkeys -> BestLists]
    /\ event_seen_on_relay \in SUBSET URLs
    /\ setting_num_relays_per_person \in InitSettings
    /\ event \in Events
    /\ identity = <<>>
    /\ InitCall

Next ==
    \/ filter_relays_ok
    \/ filter_relays_err
    \/ get_best_relays_ok
    \/ get_best_relays_err
    \/ get_event_seen_on_relay_ok
    \/ get_event_seen_on_relay_err

Spec == Init /\ [][Next]_vars

\* ------------------------------------------------------------ writers
\* Other tasks write the stores (settings UI, relay discovery, incoming
\* copies of the event).  Each write is one atomic store update.
DeltaAfter(kind) ==
    IF delta = "none" \/ (kind = "seen" /\ delta = "seen") THEN kind ELSE "mixed"

\* the setting is raised by one
write_setting ==
    /\ writes < MaxWrites
    /\ setting_num_relays_per_person < MaxSetting
    /\ setting_num_relays_per_person' = setting_num_relays_per_person + 1
    /\ delta' = DeltaAfter("setting")
    /\ writes' = writes + 1
    /\ UNCHANGED <<registry, oracle, event_seen_on_relay, event, identity>>

\* the event arrives from a relay it had not been seen on
write_seen_on ==
    /\ writes < MaxWrites
    /\ \E u \in URLs \ event_seen_on_relay :
          event_seen_on_relay' = event_seen_on_relay \cup {u}
    /\ delta' = DeltaAfter("seen")
    /\ writes' = writes + 1
    /\ UNCHANGED <<registry, oracle, setting_num_relays_per_person, event,
                   identity>>

\* a relay record's usage bits or rank change
write_relay ==
    /\ writes < MaxWrites
    /\ \E u \in URLs, r \in WriteRecords :
          /\ r # registry[u]
          /\ registry' = [registry EXCEPT ![u] = r]
    /\ delta' = DeltaAfter("registry")
    /\ writes' = writes + 1
    /\ UNCHANGED <<oracle, event_seen_on_relay, setting_num_relays_per_person,
                   event, identity>>

\* a person's relay list changes, and with it the oracle's ranking
write_best_relays ==
    /\ writes < MaxWrites
    /\ \E p \in Pubkeys, l \in BestLists :
          /\ l # oracle[p]
          /\ oracle' = [oracle EXCEPT ![p] = l]
    /\ delta' = DeltaAfter("oracle")
    /\ writes' = writes + 1
    /\ UNCHANGED <<registry, event_seen_on_relay, setting_num_relays_per_person,
                   event, identity>>

call_vars == <<pc, num_relays_per_person, relay_urls, tagged_pubkeys, result,
               calls, raised, observed>>

\* ------------------------------------- two calls, writes between them
between_setting ==
    /\ pc = "done" /\ prev = Pending
    /\ write_setting
    /\ UNCHANGED <<call_vars, prev, profile_vars>>

between_seen_on ==
    /\ pc = "done" /\ prev = Pending
    /\ write_seen_on
    /\ UNCHANGED <<call_vars, prev, profile_vars>>

\* the caller publishes the same event again
relays_for_event_again ==
    /\ pc = "done" /\ prev = Pending
    /\ prev' = result
    /\ pc' = "filter"
    /\ num_relays_per_person' = 0
    /\ relay_urls' = <<>>
    /\ tagged_pubkeys' = <<>>
    /\ result' = Pending
    /\ calls' = <<>>
    /\ raised' = "none"
    /\ observed' = {}
    /\ UNCHANGED <<collaborators, delta, writes, profile_vars>>

InitSettingsTwo == {0, MaxSetting - 1}

InitTwo ==
    /\ registry \in [URLs -> WriteRecords]
    /\ oracle \in [Pubkeys -> BestLists]
    /\ event_seen_on_relay \in SUBSET URLs
    /\ setting_num_relays_per_person \in InitSettingsTwo
    /\ event \in Events
    /\ identity = <<>>
    /\ InitCall

NextTwo ==
    \/ filter_relays_ok
    \/ filter_relays_err
    \/ get_best_relays_ok
    \/ get_best_relays_err
    \/ get_event_seen_on_relay_ok
    \/ get_event_seen_on_relay_err
    \/ between_setting
    \/ between_seen_on
    \/ relays_for_event_again

SpecTwo == InitTwo /\ [][NextTwo]_vars

\* --------------------------------- one call, writers running beside it
during_setting ==
    /\ pc # "done"
    /\ write_setting
    /\ UNCHANGED <<call_vars, prev, profile_vars>>

during_seen_on ==
    /\ pc # "done"
    /\ write_seen_on
    /\ UNCHANGED <<call_vars, prev, profile_vars>>

during_relay ==
    /\ pc # "done"
    /\ write_relay
    /\ UNCHANGED <<call_vars, prev, profile_vars>>

during_best_relays ==
    /\ pc # "done"
    /\ write_best_relays
    /\ UNCHANGED <<call_vars, prev, profile_vars>>

InitConc ==
    /\ registry \in [URLs -> WriteRecords]
    /\ oracle \in [Pubkeys -> BestLists]
    /\ event_seen_on_relay = {}
    /\ setting_num_relays_per_person = 0
    /\ event \in Events
    /\ identity = <<>>
    /\ InitCall

NextConc ==
    \/ filter_relays_ok
    \/ filter_relays_err
    \/ get_best_relays_ok
    \/ get_best_relays_err
    \/ get_event_seen_on_relay_ok
    \/ get_event_seen_on_relay_err
    \/ during_setting
    \/ during_seen_on
    \/ during_relay
    \/ during_best_relays

SpecConc == InitConc /\ [][NextConc]_vars

\* ------------------------------------------------- get_your_nprofile
\* RelayUrl::to_unchecked_url wraps the URL text without validating it
to_unchecked_url(u) == <<"UncheckedUrl", u>>

\* Lines 218-221: no public key, no profile
get_your_nprofile_no_key ==
    /\ nprofile = <<"pending">>
    /\ identity = <<>>
    /\ nprofile' = <<"None">>
    /\ UNCHANGED <<collaborators, call_vars, history, log>>

\* Lines 232-235: the registry filter fails; the error is logged
get_your_nprofile_err ==
    /\ nprofile = <<"pending">>
    /\ identity # <<>>
    /\ \E e \in ErrorKinds :
          /\ raised' = e
          /\ log' = Append(log, e)
    /\ calls' = Append(calls, <<"filter_relays", 0>>)
    /\ nprofile' = <<"None">>
    /\ UNCHANGED <<collaborators, pc, num_relays_per_person, relay_urls,
                   tagged_pubkeys, result, observed, history>>

\* Lines 223-243: the profile lists every OUTBOX relay
get_your_nprofile_ok ==
    /\ nprofile = <<"pending">>
    /\ identity # <<>>
    /\ \E relays \in Orderings(filter_relays(registry, {r \in RelayRecords : IsOutboxRelay(r)})) :
          nprofile' = <<"Some", identity[1],
                        [i \in 1..Len(relays) |-> to_unchecked_url(relays[i])]>>
    /\ calls' = Append(calls, <<"filter_relays", 0>>)
    /\ UNCHANGED <<collaborators, pc, num_relays_per_person, relay_urls,
                   tagged_pubkeys, result, raised, observed, history, log>>

InitProfile ==
    /\ registry \in [URLs -> RelayRecords]
    /\ oracle \in [Pubkeys -> {<<>>}]
    /\ event_seen_on_relay = {}
    /\ setting_num_relays_per_person = 0
    /\ event = <<>>
    /\ identity \in {<<>>} \cup {<<p>> : p \in Pubkeys}
    /\ InitCall

NextProfile ==
    \/ get_your_nprofile_no_key
    \/ get_your_nprofile_err
    \/ get_your_nprofile_ok

SpecProfile == InitProfile /\ [][NextProfile]_vars

\* ======================================================== properties
\* What the stores hold, read off the state without the operators above.
WriteSet == {u \in URLs : "WRITE" \in registry[u].usage /\ registry[u].rank # 0}
OutboxSet == {u \in URLs : "OUTBOX" \in registry[u].usage}
PubkeyTagIndexes == {i \in 1..Len(event) : event[i][1] = "p"}
EventPubkeys == {event[i][2] : i \in PubkeyTagIndexes}
TopOf(p, k) == {oracle[p][i][1] : i \in {j \in 1..Len(oracle[p]) : j <= k + 1}}
RecipientSet == UNION {TopOf(p, setting_num_relays_per_person) : p \in EventPubkeys}
Returned == pc = "done" /\ result.ok
Output == Range(result.urls)

\* C1: every returned URL is a write relay (WRITE, rank # 0) or among the
\* first K+1 best read relays of a tagged pubkey, and none is in the
\* seen-on set of the event.
C1_Membership ==
    Returned =>
        \A u \in Output :
            /\ u \in WriteSet \/ \E p \in EventPubkeys :
                                    u \in TopOf(p, setting_num_relays_per_person)
            /\ u \notin event_seen_on_relay

C1_Witness ==
    /\ Returned
    /\ \E u \in Output : u \in RecipientSet /\ u \notin WriteSet
    /\ \E u \in WriteSet : u \in event_seen_on_relay /\ u \notin RecipientSet
    /\ \E p \in EventPubkeys : Len(oracle[p]) > setting_num_relays_per_person + 1

\* C2: without failures the returned set is exactly (W \cup recipients'
\* top K+1) \ S; with no pubkey tags it is W \ S; with W and P both empty
\* the call returns Ok of the empty sequence.
C2_ExactSet ==
    (pc = "done" /\ raised = "none") =>
        /\ result.ok
        /\ Output = (WriteSet \cup RecipientSet) \ event_seen_on_relay
        /\ (EventPubkeys = {} => Output = WriteSet \ event_seen_on_relay)
        /\ (EventPubkeys = {} /\ WriteSet = {} => result = Ok(<<>>))

C2_Witness ==
    /\ Returned
    /\ \E i \in 1..Len(event) : event[i][1] # "p"
    /\ EventPubkeys # {}
    /\ WriteSet # {}
    /\ RecipientSet \ WriteSet # {}
    /\ (WriteSet \cup RecipientSet) \cap event_seen_on_relay # {}
    /\ Output # {}

\* C3: the returned sequence is strictly ascending (sorted, no URL twice).
C3_SortedNoDuplicates ==
    Returned =>
        \A i, j \in 1..Len(result.urls) : i < j => result.urls[i] < result.urls[j]

C3_Witness ==
    /\ Returned
    /\ Len(event) >= 2 /\ event[1] = event[2] /\ event[1][1] = "p"
    /\ \E u \in Output :
          /\ u \in WriteSet
          /\ u \in TopOf(event[1][2], setting_num_relays_per_person)
          /\ oracle[event[1][2]][1][1] > u
    /\ Len(result.urls) >= 2

\* C4 as claimed: a relay with rank 0 is never in the output, even when the
\* oracle lists it among a tagged pubkey's top K+1 read relays.
C4_RankZeroNeverReturned ==
    Returned => \A u \in Output : registry[u].rank # 0

\* C4 amended: a relay with rank 0 is in the output only when the oracle
\* lists it among the top K+1 read relays of a tagged pubkey; its WRITE bit
\* alone never selects it.
C4_RankZeroOnlyFromOracle ==
    Returned =>
        \A u \in Output :
            registry[u].rank = 0 =>
                \E p \in EventPubkeys : u \in TopOf(p, setting_num_relays_per_person)

C4_Witness ==
    /\ Returned
    /\ \E u \in URLs :
          /\ "WRITE" \in registry[u].usage /\ registry[u].rank = 0
          /\ u \notin event_seen_on_relay
          /\ u \notin Output
    /\ \E u \in Output : registry[u].rank = 0

\* The storage calls of a whole invocation, in order.
PubkeyTagList ==
    LET ptags == SelectSeq(event, LAMBDA t : t[1] = "p")
    IN  [i \in 1..Len(ptags) |-> <<"get_best_relays", ptags[i][2]>>]
ExpectedCalls ==
    <<<<"filter_relays", 0>>>> \o PubkeyTagList \o <<<<"get_event_seen_on_relay", 0>>>>
IsPrefix(s, t) == Len(s) <= Len(t) /\ \A i \in 1..Len(s) : s[i] = t[i]

\* C5: a failing storage call ends the invocation at once with that very
\* error and no URL; the calls made are a prefix of registry scan, oracle
\* lookups in tag order, seen-on lookup, so none follows the failing one.
C5_ErrorPropagates ==
    /\ IsPrefix(calls, ExpectedCalls)
    /\ raised # "none" =>
          /\ pc = "done"
          /\ result = [ok |-> FALSE, urls |-> <<>>, err |-> raised]
    /\ (pc = "done" /\ ~result.ok) => raised \in ErrorKinds
    /\ (pc = "done" /\ result.ok) => calls = ExpectedCalls

C5_Witness ==
    /\ pc = "done"
    /\ raised = "CorruptRelayRecord"
    /\ Len(calls) = 2
    /\ Len(ExpectedCalls) = 4
    /\ WriteSet # {}

\* C8 as claimed: with K = 0 the output holds, for every tagged pubkey, the
\* first entry of its best read relays.
C8_OnePerRecipient ==
    (Returned /\ setting_num_relays_per_person = 0) =>
        \A p \in EventPubkeys :
            /\ oracle[p] # <<>>
            /\ oracle[p][1][1] \in Output

\* C8 amended: with K = 0, for every tagged pubkey whose best read relays
\* are not empty, their first entry is in the output unless the event was
\* already seen on it.
C8_FirstUnlessSeen ==
    (Returned /\ setting_num_relays_per_person = 0) =>
        \A p \in EventPubkeys :
            (oracle[p] # <<>> /\ oracle[p][1][1] \notin event_seen_on_relay)
                => oracle[p][1][1] \in Output

C8_Witness ==
    /\ Returned
    /\ setting_num_relays_per_person = 0
    /\ \E p \in EventPubkeys :
          /\ Len(oracle[p]) = 2
          /\ oracle[p][1][1] \in Output
          /\ oracle[p][1][1] \notin WriteSet
          /\ oracle[p][2][1] \notin Output

\* C6: raising K by one removes no URL from the output.
C6_MonotoneInK ==
    (Returned /\ prev.ok /\ delta = "setting") =>
        Range(prev.urls) \subseteq Output

C6_Witness ==
    /\ Returned /\ prev.ok /\ delta = "setting"
    /\ Range(prev.urls) # {}
    /\ Range(prev.urls) # Output

\* C7: when only seen-on URLs were added between two calls, the second
\* output holds no URL the first did not.
C7_SeenOnOnlyShrinks ==
    (Returned /\ prev.ok /\ delta = "seen") =>
        Output \subseteq Range(prev.urls)

C7_Witness ==
    /\ Returned /\ prev.ok /\ delta = "seen"
    /\ Output # {}
    /\ Output # Range(prev.urls)

ReadCount(name) == Cardinality({i \in 1..Len(calls) : calls[i][1] = name})

\* C9 as claimed: every collaborator is read at most once per call, so a
\* call never observes two different states of one collaborator.
C9_EachCollaboratorOnce ==
    /\ \A name \in {"filter_relays", "get_best_relays", "get_event_seen_on_relay"} :
          ReadCount(name) <= 1
    /\ Cardinality(observed) <= 1

\* C9 amended: the registry and the seen-on ledger are read at most once
\* per call; the oracle is read once per public-key tag, in all as many
\* times as the event has such tags.
C9_OracleOncePerTag ==
    /\ ReadCount("filter_relays") <= 1
    /\ ReadCount("get_event_seen_on_relay") <= 1
    /\ ReadCount("get_best_relays") <= Cardinality(PubkeyTagIndexes)
    /\ Returned => ReadCount("get_best_relays") = Cardinality(PubkeyTagIndexes)
    /\ Cardinality(observed) <= ReadCount("get_best_relays")

C9_Witness ==
    /\ Returned
    /\ ReadCount("get_best_relays") = 2
    /\ Cardinality(observed) = 2

\* C10: no public key, or a failing registry filter (logged, not
\* returned), gives None; otherwise the profile holds the identity's key
\* and exactly the URLs of the OUTBOX relays, whatever their rank.
C10_Nprofile ==
    nprofile # <<"pending">> =>
        /\ identity = <<>> => (nprofile = <<"None">> /\ log = <<>> /\ calls = <<>>)
        /\ (identity # <<>> /\ raised # "none") =>
              (nprofile = <<"None">> /\ log = <<raised>>)
        /\ (identity # <<>> /\ raised = "none") =>
              /\ Len(nprofile) = 3
              /\ nprofile[1] = "Some"
              /\ nprofile[2] = identity[1]
              /\ log = <<>>
              /\ Len(nprofile[3]) = Cardinality(OutboxSet)
              /\ Range(nprofile[3]) = {<<"UncheckedUrl", u>> : u \in OutboxSet}

C10_Witness ==
    /\ Len(nprofile) = 3
    /\ \E u \in OutboxSet :
          /\ registry[u].rank = 0
          /\ <<"UncheckedUrl", u>> \in Range(nprofile[3])
    /\ \E u \in URLs : u \notin OutboxSet

====
